---- MODULE Spec2Model ----
(***************************************************************************)
(* Camera-angle control service: the prompt builder, the image codec and   *)
(* the request handlers of the local FastAPI server                        *)
(* (server/python/camera-angle) and of the serverless deployment           *)
(* (modal/camera_angle.py), and the architecture selection of the local    *)
(* inference command line (scripts/inference.py).                          *)
(*                                                                         *)
(* Representation.                                                         *)
(*  - A Python str is a sequence of tokens.  A token is either the single  *)
(*    blank " ", a decimal digit "0".."9", the comma ",", or a chunk of    *)
(*    text holding no blank.  The string is the concatenation of its       *)
(*    tokens.  A run of CJK characters is one token named by its code      *)
(*    points (U5EA6 is the character U+5EA6).                              *)
(*  - A Python float is a fixed-point number: the integer n stands for     *)
(*    n / Scale.  NaN and the infinities are outside the model.            *)
(*  - A seed is a pair <<hi, lo>> standing for hi * 2^16 + lo, so that the *)
(*    32-bit range of random.randint fits TLC's 32-bit signed integers.    *)
(*  - Optional[T] is a sequence of length 0 (None) or 1.                   *)
(***************************************************************************)
EXTENDS Integers, Sequences, FiniteSets, TLC

\* ------------------------------------------------------------------ bounds
\* Resolution of the fixed-point floats: n stands for n / Scale.
Scale == 2
\* Largest inference time (ms) the clock is let to report.
MaxElapsedMs == 2
\* Most runs of load_model the model follows in one process.
MaxLoadRuns == 2

\* ------------------------------------------------------- generic helpers
None == <<>>
Some(v) == <<v>>

Abs(n) == IF n < 0 THEN -n ELSE n

\* Mutant: int() taken as the floor.
IntOfFloat_Floor(x) == x \div Scale

\* Python int(x) on a float: truncation toward zero.
IntOfFloat(x) == IF x >= 0 THEN x \div Scale ELSE -((-x) \div Scale)

\* Python str(n) for an int n >= 0, as digit tokens.
DigitToken(d) ==
    CASE d = 0 -> "0" [] d = 1 -> "1" [] d = 2 -> "2" [] d = 3 -> "3"
      [] d = 4 -> "4" [] d = 5 -> "5" [] d = 6 -> "6" [] d = 7 -> "7"
      [] d = 8 -> "8" [] d = 9 -> "9"

RECURSIVE StrOfInt(_)
StrOfInt(n) ==
    IF n < 10 THEN <<DigitToken(n)>>
    ELSE StrOfInt(n \div 10) \o <<DigitToken(n % 10)>>

\* str.format(degrees=...) on a template: every "{degrees}" field is
\* replaced by str(degrees).
RECURSIVE Format(_, _)
Format(template, degrees) ==
    IF template = <<>> THEN <<>>
    ELSE (IF Head(template) = "{degrees}" THEN StrOfInt(degrees)
          ELSE <<Head(template)>>) \o Format(Tail(template), degrees)

\* " ".join(parts)
RECURSIVE JoinWithSpace(_)
JoinWithSpace(parts) ==
    IF parts = <<>> THEN <<>>
    ELSE IF Len(parts) = 1 THEN parts[1]
    ELSE parts[1] \o <<" ">> \o JoinWithSpace(Tail(parts))

\* str.strip(): leading and trailing whitespace removed.
RECURSIVE LStrip(_)
LStrip(s) == IF s # <<>> /\ Head(s) = " " THEN LStrip(Tail(s)) ELSE s

RECURSIVE RStrip(_)
RStrip(s) ==
    IF s # <<>> /\ s[Len(s)] = " " THEN RStrip(SubSeq(s, 1, Len(s) - 1)) ELSE s

Strip(s) == RStrip(LStrip(s))

\* ------------------------------------------------------ prompt templates
\* server/python/camera-angle/prompts.py
PROMPT_TEMPLATES ==
    [rotate_left  |-> <<"U5C06955C593454115DE665CB8F6C", "{degrees}", "U5EA6", " ",
                        "Rotate", " ", "the", " ", "camera", " ", "{degrees}", " ",
                        "degrees", " ", "to", " ", "the", " ", "left.">>,
     rotate_right |-> <<"U5C06955C5934541153F365CB8F6C", "{degrees}", "U5EA6", " ",
                        "Rotate", " ", "the", " ", "camera", " ", "{degrees}", " ",
                        "degrees", " ", "to", " ", "the", " ", "right.">>,
     birds_eye    |-> <<"U5C0676F8673A8F6C54119E1F77B089C689D2", " ",
                        "Turn", " ", "the", " ", "camera", " ", "to", " ", "a", " ",
                        "bird's-eye", " ", "view.">>,
     worms_eye    |-> <<"U5C0676F8673A5207636252304EF089C689C689D2", " ",
                        "Turn", " ", "the", " ", "camera", " ", "to", " ", "a", " ",
                        "worm's-eye", " ", "view.">>,
     close_up     |-> <<"U5C06955C59348F6C4E3A72795199955C5934", " ",
                        "Turn", " ", "the", " ", "camera", " ", "to", " ", "a", " ",
                        "close-up.">>,
     wide_angle   |-> <<"U5C06955C59348F6C4E3A5E7F89D2955C5934", " ",
                        "Turn", " ", "the", " ", "camera", " ", "to", " ", "a", " ",
                        "wide-angle", " ", "lens.">>,
     no_movement  |-> <<"no", " ", "camera", " ", "movement">>]

\* modal/camera_angle.py (its own copy of the table)
MODAL_PROMPT_TEMPLATES ==
    [rotate_left  |-> <<"U5C06955C593454115DE665CB8F6C", "{degrees}", "U5EA6", " ",
                        "Rotate", " ", "the", " ", "camera", " ", "{degrees}", " ",
                        "degrees", " ", "to", " ", "the", " ", "left.">>,
     rotate_right |-> <<"U5C06955C5934541153F365CB8F6C", "{degrees}", "U5EA6", " ",
                        "Rotate", " ", "the", " ", "camera", " ", "{degrees}", " ",
                        "degrees", " ", "to", " ", "the", " ", "right.">>,
     birds_eye    |-> <<"U5C0676F8673A8F6C54119E1F77B089C689D2", " ",
                        "Turn", " ", "the", " ", "camera", " ", "to", " ", "a", " ",
                        "bird's-eye", " ", "view.">>,
     worms_eye    |-> <<"U5C0676F8673A5207636252304EF089C689C689D2", " ",
                        "Turn", " ", "the", " ", "camera", " ", "to", " ", "a", " ",
                        "worm's-eye", " ", "view.">>,
     close_up     |-> <<"U5C06955C59348F6C4E3A72795199955C5934", " ",
                        "Turn", " ", "the", " ", "camera", " ", "to", " ", "a", " ",
                        "close-up.">>,
     wide_angle   |-> <<"U5C06955C59348F6C4E3A5E7F89D2955C5934", " ",
                        "Turn", " ", "the", " ", "camera", " ", "to", " ", "a", " ",
                        "wide-angle", " ", "lens.">>,
     no_movement  |-> <<"no", " ", "camera", " ", "movement">>]

\* The literal the two generation paths compare the prompt with.
NO_CAMERA_MOVEMENT == <<"no", " ", "camera", " ", "movement">>

\* -------------------------------------------------------- prompt builder
\* Each clause operator is the list of phrases one "if" block of
\* build_camera_prompt appends to prompt_parts: <<>> or <<phrase>>.

\* prompts.py: if rotation != 0: degrees = abs(int(rotation)) ...
RotationClause(rotation) ==
    IF rotation # 0
    THEN LET degrees == Abs(IntOfFloat(rotation))
         IN  IF rotation > 0
             THEN <<Format(PROMPT_TEMPLATES.rotate_right, degrees)>>
             ELSE <<Format(PROMPT_TEMPLATES.rotate_left, degrees)>>
    ELSE <<>>

\* Mutant: the tilt thresholds taken inclusively.
TiltClause_Inclusive(tilt) ==
    IF tilt >= 5 * Scale THEN <<PROMPT_TEMPLATES.birds_eye>>
    ELSE IF tilt <= -5 * Scale THEN <<PROMPT_TEMPLATES.worms_eye>>
    ELSE <<>>

\* prompts.py: if tilt > 5: ... elif tilt < -5: ...
TiltClause(tilt) ==
    IF tilt > 5 * Scale THEN <<PROMPT_TEMPLATES.birds_eye>>
    ELSE IF tilt < -5 * Scale THEN <<PROMPT_TEMPLATES.worms_eye>>
    ELSE <<>>

\* Mutant: zooming out asks for the wide-angle lens.
ZoomClause_ZoomOutWide(zoom) ==
    IF zoom > 5 * Scale THEN <<PROMPT_TEMPLATES.close_up>>
    ELSE IF zoom < 0 THEN <<PROMPT_TEMPLATES.wide_angle>>
    ELSE <<>>

\* prompts.py: if zoom > 5: ...
ZoomClause(zoom) ==
    IF zoom > 5 * Scale THEN <<PROMPT_TEMPLATES.close_up>> ELSE <<>>

\* Mutant: the wide-angle flag is not applied.
WideAngleClause_Ignored(wide_angle) == <<>>

\* prompts.py: if wide_angle: ...
WideAngleClause(wide_angle) ==
    IF wide_angle THEN <<PROMPT_TEMPLATES.wide_angle>> ELSE <<>>

\* Mutant: the zoom block placed before the tilt block.
PromptParts_ZoomBeforeTilt(rotation, tilt, zoom, wide_angle) ==
    RotationClause(rotation) \o ZoomClause(zoom) \o TiltClause(tilt)
        \o WideAngleClause(wide_angle)

\* prompts.py: the order in which the blocks append to prompt_parts.
PromptParts(rotation, tilt, zoom, wide_angle) ==
    RotationClause(rotation) \o TiltClause(tilt) \o ZoomClause(zoom)
        \o WideAngleClause(wide_angle)

\* Mutant: no fallback to the sentinel.
FinalPrompt_NoFallback(prompt_parts) == Strip(JoinWithSpace(prompt_parts))

\* prompts.py: " ".join(prompt_parts).strip(), or the sentinel when empty.
FinalPrompt(prompt_parts) ==
    LET final_prompt == Strip(JoinWithSpace(prompt_parts))
    IN  IF final_prompt # <<>> THEN final_prompt ELSE PROMPT_TEMPLATES.no_movement

\* prompts.py build_camera_prompt(rotation, tilt, zoom, wide_angle)
build_camera_prompt(rotation, tilt, zoom, wide_angle) ==
    FinalPrompt(PromptParts(rotation, tilt, zoom, wide_angle))

\* modal/camera_angle.py: the serverless copy of the builder.
ModalRotationClause(rotation) ==
    IF rotation # 0
    THEN LET degrees == Abs(IntOfFloat(rotation))
         IN  IF rotation > 0
             THEN <<Format(MODAL_PROMPT_TEMPLATES.rotate_right, degrees)>>
             ELSE <<Format(MODAL_PROMPT_TEMPLATES.rotate_left, degrees)>>
    ELSE <<>>

ModalTiltClause(tilt) ==
    IF tilt > 5 * Scale THEN <<MODAL_PROMPT_TEMPLATES.birds_eye>>
    ELSE IF tilt < -5 * Scale THEN <<MODAL_PROMPT_TEMPLATES.worms_eye>>
    ELSE <<>>

\* Mutant: the serverless zoom threshold taken inclusively.
ModalZoomClause_Inclusive(zoom) ==
    IF zoom >= 5 * Scale THEN <<MODAL_PROMPT_TEMPLATES.close_up>> ELSE <<>>

ModalZoomClause(zoom) ==
    IF zoom > 5 * Scale THEN <<MODAL_PROMPT_TEMPLATES.close_up>> ELSE <<>>

ModalPromptParts(rotation, tilt, zoom) ==
    ModalRotationClause(rotation) \o ModalTiltClause(tilt) \o ModalZoomClause(zoom)

ModalFinalPrompt(prompt_parts) ==
    LET final_prompt == Strip(JoinWithSpace(prompt_parts))
    IN  IF final_prompt # <<>> THEN final_prompt
        ELSE MODAL_PROMPT_TEMPLATES.no_movement

\* modal/camera_angle.py build_camera_prompt(rotation, tilt, zoom)
modal_build_camera_prompt(rotation, tilt, zoom) ==
    ModalFinalPrompt(ModalPromptParts(rotation, tilt, zoom))

\* ------------------------------------------------------------ image codec
\* An image is [pixels, mode].  The tokens below are base64 texts: the
\* encoding of an image file, one cut in two (the head shorter than the
\* file's signature, so that alone it is no image), the prefix of a data
\* URI, and a text whose bytes are no image.
PNG_A_RGB == "b64(PNG,A,RGB)"
PNG_A_RGBA == "b64(PNG,A,RGBA)"
PNG_OUT_RGB == "b64(PNG,OUT,RGB)"
PNG_A_RGB_HEAD == "b64(PNG,A,RGB)[:n]"
PNG_A_RGB_TAIL == "b64(PNG,A,RGB)[n:]"
JPEG_A_CMYK == "b64(JPEG,A,CMYK)"
NOT_AN_IMAGE == "AAAA"
DATA_URI_PREFIX == "data:image/png;base64"

ImageA(mode) == [pixels |-> "A", mode |-> mode]
\* What the diffusion pipeline hands back in .images[0].
PipelineImage == [pixels |-> "OUT", mode |-> "RGB"]

\* str.split(","): the segments between the commas.
RECURSIVE Split(_)
Split(s) ==
    IF \A i \in 1..Len(s) : s[i] # "," THEN <<s>>
    ELSE LET k == CHOOSE i \in 1..Len(s) :
                      s[i] = "," /\ \A j \in 1..(i - 1) : s[j] # ","
         IN  <<SubSeq(s, 1, k - 1)>> \o Split(SubSeq(s, k + 1, Len(s)))

\* base64.b64decode (validate=False) drops the characters outside the base64
\* alphabet before it decodes; of the tokens of the model that is the comma.
RECURSIVE DropNonAlphabet(_)
DropNonAlphabet(s) ==
    IF s = <<>> THEN <<>>
    ELSE (IF Head(s) = "," THEN <<>> ELSE <<Head(s)>>) \o DropNonAlphabet(Tail(s))

\* base64.b64decode followed by Image.open: the image the text decodes to,
\* or None when decoding or parsing raises.
OpenImage(payload) ==
    LET data == DropNonAlphabet(payload)
    IN  IF data = <<PNG_A_RGB>> THEN Some(ImageA("RGB"))
        ELSE IF data = <<PNG_A_RGB_HEAD, PNG_A_RGB_TAIL>> THEN Some(ImageA("RGB"))
        ELSE IF data = <<PNG_A_RGBA>> THEN Some(ImageA("RGBA"))
        ELSE IF data = <<JPEG_A_CMYK>> THEN Some(ImageA("CMYK"))
        ELSE IF data = <<PNG_OUT_RGB>> THEN Some(PipelineImage)
        ELSE None

\* inference.py base64_to_image: the text handed to base64.b64decode.
Base64Payload(base64_str) ==
    IF \E i \in 1..Len(base64_str) : base64_str[i] = ","
    THEN Split(base64_str)[2]
    ELSE base64_str

\* inference.py base64_to_image
base64_to_image(base64_str) == OpenImage(Base64Payload(base64_str))

\* Mutant: the encoder returns a data URI.
image_to_base64_DataUri(image) ==
    IF image = ImageA("RGB") THEN Some(<<DATA_URI_PREFIX, ",", PNG_A_RGB>>)
    ELSE IF image = ImageA("RGBA") THEN Some(<<DATA_URI_PREFIX, ",", PNG_A_RGBA>>)
    ELSE IF image = PipelineImage THEN Some(<<DATA_URI_PREFIX, ",", PNG_OUT_RGB>>)
    ELSE None

\* inference.py image_to_base64 (format PNG): the base64 text, or None when
\* image.save raises (the PNG writer has no CMYK mode).
image_to_base64(image) ==
    IF image = ImageA("RGB") THEN Some(<<PNG_A_RGB>>)
    ELSE IF image = ImageA("RGBA") THEN Some(<<PNG_A_RGBA>>)
    ELSE IF image = PipelineImage THEN Some(<<PNG_OUT_RGB>>)
    ELSE None

\* PIL Image.convert("RGB")
ConvertRGB(image) == [image EXCEPT !.mode = "RGB"]

\* ------------------------------------------------------------------ seeds
\* A seed <<hi, lo>> is the integer hi * 2^16 + lo.
SeedOf(hi, lo) == <<hi, lo>>
ZERO_SEED == SeedOf(0, 0)
\* random.randint(0, 2**32 - 1): the drawn values the model follows.
RandIntDraws == {SeedOf(0, 0), SeedOf(0, 7), SeedOf(65535, 65535)}

\* --------------------------------------------------------------- requests
RotationInputs ==
    {-30 * Scale, -1, 0, 1, 45 * Scale + 1, 90 * Scale, 400 * Scale}
TiltInputs ==
    {-15 * Scale, -5 * Scale - 1, -5 * Scale, 0, 5 * Scale, 5 * Scale + 1, 20 * Scale}
ZoomInputs == {-3 * Scale, 0, 5 * Scale, 5 * Scale + 1, 8 * Scale}
SeedInputs == {None, Some(ZERO_SEED), Some(SeedOf(0, 42))}
ImageInputs ==
    {<<PNG_A_RGB>>,
     <<DATA_URI_PREFIX, ",", PNG_A_RGBA>>,
     <<DATA_URI_PREFIX, ",", PNG_A_RGB_HEAD, ",", PNG_A_RGB_TAIL>>,
     <<JPEG_A_CMYK>>,
     <<NOT_AN_IMAGE>>}
DEFAULT_STEPS == 4

\* The JSON body of POST /generate with the defaults filled in.
Requests ==
    [image : ImageInputs, rotation : RotationInputs, tilt : TiltInputs,
     zoom : ZoomInputs, wide_angle : BOOLEAN, seed : SeedInputs,
     num_steps : {DEFAULT_STEPS}]

\* ------------------------------------------------------------------ state
VARIABLES
    deployment,   \* "local" (FastAPI server), "modal" (serverless) or "cli"
    cuda,         \* torch.cuda.is_available() on the host
    server,       \* "down" before startup / @modal.enter, then "up"
    pipe,         \* _pipe (local) or self.pipe (modal): "None" or "pipeline"
    device,       \* _device: "None", "cuda" or "cpu"
    dtype,        \* _dtype
    load_result,  \* what load_model() returned: "not_run", "True", "False"
    load_runs,    \* how many times the body of load_model has run
    phase,        \* "idle" or "responded"
    endpoint,     \* the endpoint answered: "none", "/generate", "/health", "/status"
    request,      \* Optional: the body of the request being answered
    prompt,       \* Optional: the prompt the handler built
    trace,        \* the steps the handler went through, in order
    decoded,      \* Optional: the text the handler gave to base64.b64decode
    error,        \* Optional: the message of the exception the handler met
    pipe_calls,   \* the pipeline invocations the handler made
    service,      \* Optional: what the generation returned to the handler
    response,     \* Optional: the HTTP response
    MODEL_REGISTRY, \* Optional: the registry scripts/inference.py loaded
    cli_pc,       \* main of the CLI: "off", "start", "parsed", "selected", "exited"
    args,         \* Optional: main's parsed command line
    cli_file_size, \* Optional: main's file_size
    model_type,   \* Optional: main's model_type
    settings,     \* Optional: main's width, height, steps, guidance_scale
    cli_call,     \* Optional: the generation function main called and its locals
    stdout,       \* Optional: the JSON the CLI printed
    exit_code     \* Optional: the exit status of the CLI

vars == <<deployment, cuda, server, pipe, device, dtype, load_result, load_runs,
          phase, endpoint, request, prompt, trace, decoded, error, pipe_calls,
          service, response,
          MODEL_REGISTRY, cli_pc, args, cli_file_size, model_type, settings,
          cli_call, stdout, exit_code>>

model_vars == <<pipe, device, dtype, load_result, load_runs>>
exchange_vars ==
    <<endpoint, request, prompt, trace, decoded, error, pipe_calls, service, response>>
cli_vars ==
    <<MODEL_REGISTRY, cli_pc, args, cli_file_size, model_type, settings, cli_call,
      stdout, exit_code>>

\* ---------------------------------------------------------- model loading
\* The step of load_model at which an exception is raised ("none": no step).
LoadFailurePoints ==
    {"import", "transformer", "pipeline", "offload", "lora", "fuse", "none"}

\* Mutant: a failed load clears the pipeline.
load_model_ResetOnFailure(fail_at, cuda_available) ==
    LET dev == IF cuda_available THEN "cuda" ELSE "cpu"
        dt  == IF dev = "cuda" THEN "bfloat16" ELSE "float32"
    IN  IF fail_at = "import"
        THEN [pipe |-> "None", device |-> device, dtype |-> dtype, result |-> "False"]
        ELSE IF fail_at # "none"
        THEN [pipe |-> "None", device |-> dev, dtype |-> dt, result |-> "False"]
        ELSE [pipe |-> "pipeline", device |-> dev, dtype |-> dt, result |-> "True"]

\* inference.py load_model: the globals it leaves and the value it returns,
\* when the step fail_at raises.  _device and _dtype are assigned after the
\* import, _pipe after the two from_pretrained calls; every exception is
\* caught and turned into return False.
load_model(fail_at, cuda_available) ==
    LET dev == IF cuda_available THEN "cuda" ELSE "cpu"
        dt  == IF dev = "cuda" THEN "bfloat16" ELSE "float32"
    IN  IF fail_at = "import"
        THEN [pipe |-> pipe, device |-> device, dtype |-> dtype, result |-> "False"]
        ELSE IF fail_at \in {"transformer", "pipeline"}
        THEN [pipe |-> pipe, device |-> dev, dtype |-> dt, result |-> "False"]
        ELSE IF fail_at \in {"offload", "lora", "fuse"}
        THEN [pipe |-> "pipeline", device |-> dev, dtype |-> dt, result |-> "False"]
        ELSE [pipe |-> "pipeline", device |-> dev, dtype |-> dt, result |-> "True"]

\* Mutant: loaded as soon as the device is chosen.
is_model_loaded_ByDevice == device # "None"

\* inference.py is_model_loaded
is_model_loaded == pipe # "None"

\* inference.py get_model_status
get_model_status ==
    [loaded |-> is_model_loaded, device |-> device, dtype |-> dtype,
     gpu_available |-> cuda]

\* -------------------------------------------------------------- inference
\* The messages of the exceptions the libraries raise.
DECODE_ERROR == "cannot identify image file"
ENCODE_ERROR == "cannot write mode CMYK as PNG"
PIPELINE_ERROR == "CUDA out of memory"
NOT_LOADED_ERROR == "Model not loaded. Call load_model() first."

\* inference.py: return image, seed or 0, 0.0
SeedOrZero(seed) ==
    IF seed = None \/ seed[1] = ZERO_SEED THEN ZERO_SEED ELSE seed[1]

\* Mutant: a seed of 0 taken as no seed.
GenerateSeed_FalsyIsNone(seed) ==
    IF seed = None \/ seed[1] = ZERO_SEED THEN RandIntDraws ELSE {seed[1]}

\* inference.py: if seed is None: seed = random.randint(0, 2**32 - 1)
GenerateSeed(seed) == IF seed = None THEN RandIntDraws ELSE {seed[1]}

\* One call of the pipeline object: it raises, or returns an image after
\* some measured time.  calls records the invocation.
RunPipeline(image, prompt_, seed, num_steps, dev) ==
    LET call == [image |-> image, prompt |-> prompt_,
                 num_inference_steps |-> num_steps,
                 generator_seed |-> seed, generator_device |-> dev]
    IN  {[kind |-> "raise", error |-> PIPELINE_ERROR,
          result |-> None, calls |-> <<call>>]}
        \cup
        {[kind |-> "return", error |-> "",
          result |-> Some([image |-> PipelineImage, seed |-> seed, time_ms |-> ms]),
          calls |-> <<call>>] : ms \in 0..MaxElapsedMs}

\* inference.py generate_camera_angle: every way the call can end.
generate_camera_angle(image, prompt_, seed, num_steps) ==
    IF ~is_model_loaded
    THEN {[kind |-> "raise", error |-> NOT_LOADED_ERROR,
           result |-> None, calls |-> <<>>]}
    ELSE IF prompt_ = NO_CAMERA_MOVEMENT
    THEN {[kind |-> "return", error |-> "",
           result |-> Some([image |-> image, seed |-> SeedOrZero(seed), time_ms |-> 0]),
           calls |-> <<>>]}
    ELSE UNION {RunPipeline(IF image.mode # "RGB" THEN ConvertRGB(image) ELSE image,
                            prompt_, s, num_steps, device)
                : s \in GenerateSeed(seed)}

\* ------------------------------------------------- local server: endpoints
\* The handler has nothing to report for a field.
NoExchange ==
    [prompt |-> None, trace |-> <<>>, decoded |-> None, error |-> None,
     pipe_calls |-> <<>>, service |-> None]

\* app.py health_check
health_check == [status |-> 200, health |-> "ok", model_loaded |-> is_model_loaded]

\* app.py get_status
get_status == [status |-> 200] @@ get_model_status

\* app.py generate: raise HTTPException(status_code=503, ...)
NotLoadedResponse ==
    [status |-> 503, detail |-> "Model not loaded. Server is starting up, please wait."]

\* Mutant: the message of the exception is not passed on.
ErrorResponse_NoMessage(message) == [status |-> 500, detail |-> "Internal Server Error"]

\* app.py generate: except Exception as e: raise HTTPException(500, str(e))
ErrorResponse(message) == [status |-> 500, detail |-> message]

\* app.py generate, after generate_camera_angle ended as g: the result is
\* encoded and returned, and an exception becomes the error response.
LocalFinish(p, payload, g) ==
    LET base == [prompt |-> Some(p), decoded |-> Some(payload),
                 pipe_calls |-> g.calls]
    IN  IF g.kind = "raise"
        THEN base @@ [trace |-> <<"build_prompt", "decode_image", "generate">>,
                      error |-> Some(g.error), service |-> None,
                      response |-> ErrorResponse(g.error)]
        ELSE LET result_base64 == image_to_base64(g.result[1].image)
                 steps == <<"build_prompt", "decode_image", "generate", "encode_image">>
             IN  IF result_base64 = None
                 THEN base @@ [trace |-> steps, error |-> Some(ENCODE_ERROR),
                               service |-> g.result,
                               response |-> ErrorResponse(ENCODE_ERROR)]
                 ELSE base @@ [trace |-> steps, error |-> None,
                               service |-> g.result,
                               response |-> [status |-> 200,
                                             image |-> result_base64[1],
                                             prompt |-> p,
                                             seed |-> g.result[1].seed,
                                             inference_time_ms |-> g.result[1].time_ms]]

\* app.py generate: every way the handler can end for the request req.
local_generate(req) ==
    IF ~is_model_loaded
    THEN {NoExchange @@ [response |-> NotLoadedResponse]}
    ELSE LET p == build_camera_prompt(req.rotation, req.tilt, req.zoom, req.wide_angle)
             payload == Base64Payload(req.image)
             input_image == base64_to_image(req.image)
         IN  IF input_image = None
             THEN {[prompt |-> Some(p), trace |-> <<"build_prompt", "decode_image">>,
                    decoded |-> Some(payload), error |-> Some(DECODE_ERROR),
                    pipe_calls |-> <<>>, service |-> None,
                    response |-> ErrorResponse(DECODE_ERROR)]}
             ELSE {LocalFinish(p, payload, g)
                   : g \in generate_camera_angle(input_image[1], p, req.seed,
                                                 req.num_steps)}

\* ------------------------------------------------ serverless: generate
\* modal/camera_angle.py generate: the text handed to base64.b64decode.
ModalBase64Payload(image_b64) ==
    IF \E i \in 1..Len(image_b64) : image_b64[i] = ","
    THEN Split(image_b64)[2]
    ELSE image_b64

\* modal/camera_angle.py: the inline decoding of generate.
modal_decode_image(image_b64) ==
    LET opened == OpenImage(ModalBase64Payload(image_b64))
    IN  IF opened = None THEN None ELSE Some(ConvertRGB(opened[1]))

\* modal/camera_angle.py: if seed is None: seed = random.randint(0, 2**32 - 1)
ModalGenerateSeed(seed) == IF seed = None THEN RandIntDraws ELSE {seed[1]}

\* modal/camera_angle.py: the dict returned when the prompt is the sentinel.
ModalNoMovementResult(image_b64, prompt_) ==
    [status |-> 200, image |-> image_b64, prompt |-> prompt_, seed |-> ZERO_SEED]

\* The answer of the web layer to an exception the endpoint lets through.
ModalErrorResponse == [status |-> 500, detail |-> "Internal Server Error"]

\* modal/camera_angle.py generate, after the pipeline call ended as g.
ModalFinish(p, payload, g) ==
    LET base == [prompt |-> Some(p), decoded |-> Some(payload),
                 pipe_calls |-> g.calls]
    IN  IF g.kind = "raise"
        THEN base @@ [trace |-> <<"build_prompt", "decode_image", "generate">>,
                      error |-> Some(g.error), service |-> None,
                      response |-> ModalErrorResponse]
        ELSE base @@ [trace |-> <<"build_prompt", "decode_image", "generate",
                                  "encode_image">>,
                      error |-> None, service |-> g.result,
                      response |-> [status |-> 200,
                                    image |-> image_to_base64(g.result[1].image)[1],
                                    prompt |-> p,
                                    seed |-> g.result[1].seed,
                                    inference_time_ms |-> g.result[1].time_ms]]

\* modal/camera_angle.py CameraAngle.generate: every way the endpoint can
\* end for the request req.  An exception leaves the endpoint uncaught and
\* the web layer answers 500.
modal_generate(req) ==
    LET p == modal_build_camera_prompt(req.rotation, req.tilt, req.zoom)
    IN  IF p = NO_CAMERA_MOVEMENT
        THEN {[prompt |-> Some(p), trace |-> <<"build_prompt">>, decoded |-> None,
               error |-> None, pipe_calls |-> <<>>, service |-> None,
               response |-> ModalNoMovementResult(req.image, p)]}
        ELSE LET payload == ModalBase64Payload(req.image)
                 input_image == modal_decode_image(req.image)
             IN  IF input_image = None
                 THEN {[prompt |-> Some(p), trace |-> <<"build_prompt", "decode_image">>,
                        decoded |-> Some(payload), error |-> Some(DECODE_ERROR),
                        pipe_calls |-> <<>>, service |-> None,
                        response |-> ModalErrorResponse]}
                 ELSE {ModalFinish(p, payload, g)
                       : g \in UNION {RunPipeline(input_image[1], p, s, req.num_steps,
                                                  "cuda")
                                      : s \in ModalGenerateSeed(req.seed)}}

\* ------------------------------------------------ inference CLI: detection
\* scripts/inference.py.  A path is a sequence of tokens: "/" separators,
\* chunks of text and a final suffix such as ".safetensors".  The chunks are
\* cut so that every text the script searches for (a cleaned registry pattern
\* or one of its hard-coded names) is a whole chunk wherever it occurs, which
\* makes "x in name" the occurrence of the chunk x.
Suffixes == {".safetensors", ".ckpt"}

\* str.lower() on the chunks that hold capitals.
LowerToken(tok) ==
    IF tok = "SDXL" THEN "sdxl"
    ELSE IF tok = "Flux" THEN "flux"
    ELSE tok

Lower(s) == [i \in DOMAIN s |-> LowerToken(s[i])]

\* Path(p).name: what follows the last separator.
RECURSIVE PathName(_)
PathName(p) ==
    IF \A i \in 1..Len(p) : p[i] # "/" THEN p
    ELSE PathName(Tail(p))

\* Path(p).stem: the name without its last suffix.
PathStem(p) ==
    LET n == PathName(p)
    IN  IF n # <<>> /\ n[Len(n)] \in Suffixes THEN SubSeq(n, 1, Len(n) - 1) ELSE n

\* x in name, for a text x of chunks
InName(x, name) ==
    \E i \in 1..(Len(name) - Len(x) + 1) : SubSeq(name, i, i + Len(x) - 1) = x

\* dict.get(key, default) on a dict held as a function
DictGet(d, key, default) == IF key \in DOMAIN d THEN d[key] ELSE default

\* The dict of no key.
EmptyDict == [k \in {} |-> 0]

\* pattern.replace('*', '').lower()
RECURSIVE DropStars(_)
DropStars(pattern) ==
    IF pattern = <<>> THEN <<>>
    ELSE (IF Head(pattern) = "*" THEN <<>> ELSE <<Head(pattern)>>)
         \o DropStars(Tail(pattern))

CleanPattern(pattern) == Lower(DropStars(pattern))

\* Does one of the patterns of arch occur in name?
PatternMatches(arch, name) ==
    /\ arch.detection # None
    /\ \E i \in 1..Len(arch.detection[1].patterns) :
          LET clean_pattern == CleanPattern(arch.detection[1].patterns[i])
          IN  clean_pattern # <<>> /\ InName(clean_pattern, name)

\* Does file_size lie in the sizeRange of arch?
SizeMatches(arch, file_size) ==
    /\ arch.detection # None
    /\ arch.detection[1].sizeRange # None
    /\ arch.detection[1].sizeRange[1][1] <= file_size
    /\ file_size <= arch.detection[1].sizeRange[1][2]

\* The first key of order that lies in keys, or None.
FirstIn(order, keys) ==
    IF \A i \in 1..Len(order) : order[i] \notin keys THEN None
    ELSE LET k == CHOOSE i \in 1..Len(order) :
                      order[i] \in keys /\ \A j \in 1..(i - 1) : order[j] \notin keys
         IN  Some(order[k])

\* detect_model_type: the hard-coded names tried when the registry decides
\* nothing.
HardcodedModelType(name) ==
    IF InName(<<"sdxl">>, name) \/ InName(<<"sd_xl">>, name) THEN "sdxl"
    ELSE IF InName(<<"sd15">>, name) \/ InName(<<"sd_1.5">>, name)
            \/ InName(<<"sd-1-5">>, name) THEN "sd15"
    ELSE IF InName(<<"flux">>, name) THEN "flux"
    ELSE IF InName(<<"animatediff">>, name) THEN "animatediff"
    ELSE "sd15"

\* scripts/inference.py detect_model_type; MODEL_REGISTRY is None when the
\* registry file is absent or unreadable.
detect_model_type(model_path, file_size) ==
    LET name == Lower(PathStem(model_path))
    IN  IF MODEL_REGISTRY = None THEN HardcodedModelType(name)
        ELSE LET architectures == MODEL_REGISTRY[1].architectures
                 detection_order == IF MODEL_REGISTRY[1].detectionOrder # None
                                    THEN MODEL_REGISTRY[1].detectionOrder[1]
                                    ELSE MODEL_REGISTRY[1].keys
                 by_pattern ==
                     FirstIn(detection_order,
                             {k \in DOMAIN architectures :
                                 PatternMatches(architectures[k], name)})
                 by_size ==
                     IF file_size > 0
                     THEN FirstIn(detection_order,
                                  {k \in DOMAIN architectures :
                                      SizeMatches(architectures[k], file_size)})
                     ELSE None
             IN  IF by_pattern # None THEN by_pattern[1]
                 ELSE IF by_size # None THEN by_size[1]
                 ELSE HardcodedModelType(name)

\* scripts/inference.py get_architecture_defaults
get_architecture_defaults(arch_key) ==
    IF MODEL_REGISTRY = None THEN EmptyDict
    ELSE IF arch_key \in DOMAIN MODEL_REGISTRY[1].architectures
    THEN MODEL_REGISTRY[1].architectures[arch_key].defaults
    ELSE EmptyDict

\* --------------------------------------------------- inference CLI: inputs
\* Registries the script may find in config/model-registry.json.  A file
\* size n stands for n GiB; guidance values are fixed-point like the floats.
REGISTRY_FULL ==
    [keys |-> <<"sd15", "sdxl", "flux">>,
     detectionOrder |-> Some(<<"flux", "sdxl", "sd15">>),
     architectures |->
        [sd15 |-> [detection |-> Some([patterns |-> <<<<"*", "sd15", "*">>>>,
                                       sizeRange |-> Some(<<2, 5>>)]),
                   defaults |-> [width |-> 512, height |-> 512, steps |-> 25]],
         sdxl |-> [detection |-> Some([patterns |-> <<<<"*", "SDXL", "*">>,
                                                      <<"*", "sd_xl", "*">>>>,
                                       sizeRange |-> Some(<<6, 8>>)]),
                   defaults |-> [width |-> 1024, height |-> 1024, steps |-> 30,
                                 guidance |-> 7 * Scale]],
         flux |-> [detection |-> Some([patterns |-> <<<<"flux", "*">>>>,
                                       sizeRange |-> Some(<<20, 30>>)]),
                   defaults |-> [width |-> 1024, height |-> 1024, steps |-> 20,
                                 guidance |-> 3 * Scale + 1]]]]

REGISTRY_SPARSE ==
    [keys |-> <<"animatediff", "sdxl">>,
     detectionOrder |-> None,
     architectures |->
        [animatediff |-> [detection |-> None, defaults |-> [steps |-> 25]],
         sdxl |-> [detection |-> Some([patterns |-> <<<<"*">>, <<"sdxl">>>>,
                                       sizeRange |-> None]),
                   defaults |-> EmptyDict]]]

Registries == {None, Some(REGISTRY_FULL), Some(REGISTRY_SPARSE)}

ModelPaths ==
    {<<"models", "/", "dream", "shaper", ".safetensors">>,
     <<"models", "/", "SDXL", "base", ".safetensors">>,
     <<"models", "/", "Flux", "dev", ".safetensors">>,
     <<"sdxl", "/", "animatediff", ".ckpt">>}
FileSizes == {0, 4, 7, 24}
ArchitectureInputs == {"", "sd15", "sdxl", "flux"}
Devices == {"cuda", "mps", "cpu"}

\* argparse: the parsed command line.
CliArguments ==
    [model_path : ModelPaths, architecture : ArchitectureInputs,
     width : {0, 768}, height : {0}, steps : {0, 12},
     guidance_scale : {0, 4 * Scale + 1}, seed : {-1, 5}]

\* main: the values used when neither the command line nor the registry
\* gives one.
FALLBACK_WIDTH == 512
FALLBACK_HEIGHT == 512
FALLBACK_STEPS == 30
FALLBACK_GUIDANCE == (15 * Scale) \div 2

\* --------------------------------------------------- inference CLI: main
\* main, lines 319-323: the command line first, then the registry defaults
\* of the architecture, then the fallback.
ApplyDefaults(a, defaults) ==
    [width |-> IF a.width > 0 THEN a.width
               ELSE DictGet(defaults, "width", FALLBACK_WIDTH),
     height |-> IF a.height > 0 THEN a.height
                ELSE DictGet(defaults, "height", FALLBACK_HEIGHT),
     steps |-> IF a.steps > 0 THEN a.steps
               ELSE DictGet(defaults, "steps", FALLBACK_STEPS),
     guidance_scale |-> IF a.guidance_scale > 0 THEN a.guidance_scale
                        ELSE DictGet(defaults, "guidance", FALLBACK_GUIDANCE)]

\* main, lines 311-314: the architecture of the run.
SelectArchitecture(a, size) ==
    IF a.architecture # "" THEN a.architecture
    ELSE detect_model_type(a.model_path, size)

CLI_ERROR == "generation failed"

\* What a generate_* function leaves when an exception ends it.
Raised(fn, mt, dev, loader) ==
    [kind |-> "raise",
     call |-> [function |-> fn, model_type |-> mt, device |-> dev, loader |-> loader],
     json |-> [success |-> FALSE, error |-> CLI_ERROR]]

\* What a generate_* function returns.
Returned(fn, mt, dev, loader, s) ==
    [kind |-> "return",
     call |-> [function |-> fn, model_type |-> mt, device |-> dev, loader |-> loader],
     json |-> [success |-> TRUE, width |-> s.width, height |-> s.height,
               model_type |-> mt, device |-> dev]]

\* scripts/inference.py generate_with_diffusers: every way the call can end.
\* The function detects the model type itself, from the path alone.
generate_with_diffusers(model_path, s) ==
    LET mt == detect_model_type(model_path, 0)
        fn == "generate_with_diffusers"
    IN  UNION {
          {Raised(fn, mt, dev, "from_single_file"),
           Returned(fn, mt, dev, "from_single_file", s)}
          \cup
          (IF mt \in {"sd15", "sd21"} THEN {}
           ELSE {Raised(fn, mt, dev, "from_pretrained"),
                 Returned(fn, mt, dev, "from_pretrained", s)})
          : dev \in Devices}

\* scripts/inference.py generate_with_sdxl: every way the call can end.
generate_with_sdxl(model_path, s) ==
    UNION {
      {Raised("generate_with_sdxl", "sdxl", dev, "from_single_file"),
       Returned("generate_with_sdxl", "sdxl", dev, "from_single_file", s)}
      : dev \in Devices}

\* ---------------------------------------------------------------- actions
Init ==
    /\ deployment \in {"local", "modal"}
    /\ cuda \in (IF deployment = "local" THEN BOOLEAN ELSE {TRUE})
    /\ server = "down"
    /\ pipe = "None"
    /\ device = "None"
    /\ dtype = "None"
    /\ load_result = "not_run"
    /\ load_runs = 0
    /\ phase = "idle"
    /\ endpoint = "none"
    /\ request = None
    /\ prompt = None
    /\ trace = <<>>
    /\ decoded = None
    /\ error = None
    /\ pipe_calls = <<>>
    /\ service = None
    /\ response = None
    /\ MODEL_REGISTRY = None
    /\ cli_pc = "off"
    /\ args = None
    /\ cli_file_size = None
    /\ model_type = None
    /\ settings = None
    /\ cli_call = None
    /\ stdout = None
    /\ exit_code = None

\* One run of inference.py load_model in which the step fail_at raises.
RunLoadModel(fail_at) ==
    LET m == load_model(fail_at, cuda)
    IN  /\ pipe' = m.pipe
        /\ device' = m.device
        /\ dtype' = m.dtype
        /\ load_result' = m.result
        /\ load_runs' = load_runs + 1

\* app.py startup_event: load_model() runs before requests are served.
StartupEvent ==
    /\ deployment = "local"
    /\ server = "down"
    /\ \E fail_at \in LoadFailurePoints : RunLoadModel(fail_at)
    /\ server' = "up"
    /\ UNCHANGED <<cli_vars, deployment, cuda, phase, exchange_vars>>

\* A further call of inference.load_model() in the running process: the
\* function is module-level and starts loading without looking at _pipe.
LoadModelAgain ==
    /\ deployment = "local"
    /\ server = "up"
    /\ phase = "idle"
    /\ load_runs < MaxLoadRuns
    /\ \E fail_at \in LoadFailurePoints : RunLoadModel(fail_at)
    /\ UNCHANGED <<cli_vars, deployment, cuda, server, phase, exchange_vars>>

\* modal/camera_angle.py CameraAngle.load_model (@modal.enter): the container
\* serves requests only once this returned; an exception ends the container.
ModalEnter ==
    /\ deployment = "modal"
    /\ server = "down"
    /\ \E ok \in BOOLEAN :
          IF ok
          THEN /\ pipe' = "pipeline"
               /\ device' = "cuda"
               /\ dtype' = "bfloat16"
               /\ load_result' = "True"
               /\ load_runs' = load_runs + 1
               /\ server' = "up"
          ELSE /\ server' = "crashed"
               /\ UNCHANGED model_vars
    /\ UNCHANGED <<cli_vars, deployment, cuda, phase, exchange_vars>>

\* A crashed or idle-expired container is replaced by a fresh one.
ModalColdStart ==
    /\ deployment = "modal"
    /\ phase = "idle"
    /\ server \in {"crashed", "up"}
    /\ server' = "down"
    /\ pipe' = "None"
    /\ device' = "None"
    /\ dtype' = "None"
    /\ load_result' = "not_run"
    /\ load_runs' = 0
    /\ UNCHANGED <<cli_vars, deployment, cuda, phase, exchange_vars>>

\* The handler ended as o: its locals and its response.
Answer(ep, req, o) ==
    /\ endpoint' = ep
    /\ request' = req
    /\ prompt' = o.prompt
    /\ trace' = o.trace
    /\ decoded' = o.decoded
    /\ error' = o.error
    /\ pipe_calls' = o.pipe_calls
    /\ service' = o.service
    /\ response' = o.response
    /\ phase' = "responded"

\* POST /generate on the local server.
LocalGenerate ==
    /\ deployment = "local"
    /\ server = "up"
    /\ phase = "idle"
    /\ \E req \in Requests : \E o \in local_generate(req) :
          Answer("/generate", Some(req), o)
    /\ UNCHANGED <<cli_vars, deployment, cuda, server, model_vars>>

\* GET /health on the local server.
LocalHealth ==
    /\ deployment = "local"
    /\ server = "up"
    /\ phase = "idle"
    /\ Answer("/health", None, NoExchange @@ [response |-> health_check])
    /\ UNCHANGED <<cli_vars, deployment, cuda, server, model_vars>>

\* GET /status on the local server.
LocalStatus ==
    /\ deployment = "local"
    /\ server = "up"
    /\ phase = "idle"
    /\ Answer("/status", None, NoExchange @@ [response |-> get_status])
    /\ UNCHANGED <<cli_vars, deployment, cuda, server, model_vars>>

\* POST on the serverless generate endpoint.
ModalGenerate ==
    /\ deployment = "modal"
    /\ server = "up"
    /\ phase = "idle"
    /\ \E req \in Requests : \E o \in modal_generate(req) :
          Answer("/generate", Some(req), o)
    /\ UNCHANGED <<cli_vars, deployment, cuda, server, model_vars>>

\* The response is sent; the handler's locals are dropped.
Reply ==
    /\ phase = "responded"
    /\ phase' = "idle"
    /\ endpoint' = "none"
    /\ request' = None
    /\ prompt' = None
    /\ trace' = <<>>
    /\ decoded' = None
    /\ error' = None
    /\ pipe_calls' = <<>>
    /\ service' = None
    /\ response' = None
    /\ UNCHANGED <<cli_vars, deployment, cuda, server, model_vars>>

Next ==
    \/ StartupEvent
    \/ LoadModelAgain
    \/ ModalEnter
    \/ ModalColdStart
    \/ LocalGenerate
    \/ LocalHealth
    \/ LocalStatus
    \/ ModalGenerate
    \/ Reply

Spec == Init /\ [][Next]_vars

\* ------------------------------------------------- inference CLI: actions
\* The state in which scripts/inference.py starts: the module was imported,
\* which loaded the registry; the servers are not part of the run.
CliInit ==
    /\ deployment = "cli"
    /\ cuda = FALSE
    /\ server = "down"
    /\ pipe = "None"
    /\ device = "None"
    /\ dtype = "None"
    /\ load_result = "not_run"
    /\ load_runs = 0
    /\ phase = "idle"
    /\ endpoint = "none"
    /\ request = None
    /\ prompt = None
    /\ trace = <<>>
    /\ decoded = None
    /\ error = None
    /\ pipe_calls = <<>>
    /\ service = None
    /\ response = None
    /\ MODEL_REGISTRY \in Registries
    /\ cli_pc = "start"
    /\ args = None
    /\ cli_file_size = None
    /\ model_type = None
    /\ settings = None
    /\ cli_call = None
    /\ stdout = None
    /\ exit_code = None

server_vars ==
    <<deployment, cuda, server, model_vars, phase, exchange_vars>>

\* main, lines 281-304: the command line is parsed, then the dependencies
\* and the model file are checked.
CliParse ==
    /\ cli_pc = "start"
    /\ \E a \in CliArguments, dependencies_ok \in BOOLEAN, path_exists \in BOOLEAN :
          /\ args' = Some(a)
          /\ IF ~dependencies_ok
             THEN /\ stdout' = Some([success |-> FALSE, error |-> "Missing dependencies"])
                  /\ exit_code' = Some(1)
                  /\ cli_pc' = "exited"
             ELSE IF ~path_exists
             THEN /\ stdout' = Some([success |-> FALSE, error |-> "Model file not found"])
                  /\ exit_code' = Some(1)
                  /\ cli_pc' = "exited"
             ELSE /\ cli_pc' = "parsed"
                  /\ UNCHANGED <<stdout, exit_code>>
    /\ UNCHANGED <<server_vars, MODEL_REGISTRY, cli_file_size, model_type, settings, cli_call>>

\* main, lines 306-325: the architecture is selected and its defaults are
\* applied.
CliSelect ==
    /\ cli_pc = "parsed"
    /\ \E size \in FileSizes :
          LET selected == SelectArchitecture(args[1], size)
          IN  /\ cli_file_size' = Some(size)
              /\ model_type' = Some(selected)
              /\ settings' = Some(ApplyDefaults(args[1],
                                                get_architecture_defaults(selected)))
    /\ cli_pc' = "selected"
    /\ UNCHANGED <<server_vars, MODEL_REGISTRY, args, cli_call, stdout, exit_code>>

\* main, lines 327-359: the generation function is called and its result,
\* or the message of its exception, is printed as JSON.
CliGenerate ==
    /\ cli_pc = "selected"
    /\ \E o \in (IF model_type[1] = "sdxl"
                 THEN generate_with_sdxl(args[1].model_path, settings[1])
                 ELSE generate_with_diffusers(args[1].model_path, settings[1])) :
          /\ cli_call' = Some(o.call)
          /\ stdout' = Some(o.json)
          /\ exit_code' = Some(IF o.kind = "raise" THEN 1 ELSE 0)
    /\ cli_pc' = "exited"
    /\ UNCHANGED <<server_vars, MODEL_REGISTRY, args, cli_file_size, model_type, settings>>

CliNext ==
    \/ CliParse
    \/ CliSelect
    \/ CliGenerate

CliSpec == CliInit /\ [][CliNext]_vars

\* ============================================================ properties
\* Helpers of the properties.
Responded == phase = "responded"
Req == request[1]
Built == Responded /\ prompt # None
Prompt == prompt[1]
Templates ==
    IF deployment = "local" THEN PROMPT_TEMPLATES ELSE MODAL_PROMPT_TEMPLATES
SentinelText == <<"no", " ", "camera", " ", "movement">>

IsPrefix(a, s) == Len(a) <= Len(s) /\ SubSeq(s, 1, Len(a)) = a
IsSuffix(a, s) == Len(a) <= Len(s) /\ SubSeq(s, Len(s) - Len(a) + 1, Len(s)) = a
Occurrences(a, s) ==
    Cardinality({i \in 1..(Len(s) - Len(a) + 1) : SubSeq(s, i, i + Len(a) - 1) = a})
Contains(a, s) == Occurrences(a, s) > 0

\* The clauses a request triggers, in the documented order.
RequestIs(rotation, tilt, zoom, wide_angle) ==
    /\ Req.rotation = rotation
    /\ Req.tilt = tilt
    /\ Req.zoom = zoom
    /\ Req.wide_angle = wide_angle

\* The wide-angle flag as the deployment reads it.
WideAngleRead == deployment = "local" /\ Req.wide_angle

\* ------------------------------------------------------------------- C1
\* C1: the builder (either variant) returns the sentinel "no camera movement"
\* exactly when no clause is triggered: rotation = 0, -5 <= tilt <= 5,
\* zoom <= 5 and (local variant) wide_angle false; for every other input the
\* prompt is a non-empty string other than the sentinel.
C1_SentinelIffNoClause ==
    Built =>
        LET noClause == /\ Req.rotation = 0
                        /\ -5 * Scale <= Req.tilt
                        /\ Req.tilt <= 5 * Scale
                        /\ Req.zoom <= 5 * Scale
                        /\ ~WideAngleRead
        IN  /\ (Prompt = SentinelText) <=> noClause
            /\ Prompt # <<>>
            /\ RequestIs(0, 0, 0, FALSE) => Prompt = SentinelText

C1_Witness ==
    /\ Built
    /\ deployment = "local"
    /\ RequestIs(0, 5 * Scale, 5 * Scale, FALSE)
    /\ Prompt = SentinelText

\* ------------------------------------------------------------------- C2
\* The text the claim gives for build_camera_prompt(90, 20, 0, false).
RotateRight90ThenBirdsEye ==
    <<"U5C06955C5934541153F365CB8F6C", "9", "0", "U5EA6", " ",
      "Rotate", " ", "the", " ", "camera", " ", "9", "0", " ",
      "degrees", " ", "to", " ", "the", " ", "right.", " ",
      "U5C0676F8673A8F6C54119E1F77B089C689D2", " ",
      "Turn", " ", "the", " ", "camera", " ", "to", " ", "a", " ",
      "bird's-eye", " ", "view.">>

\* The phrase of each triggered clause, in the order rotation, tilt, zoom,
\* wide-angle.
TriggeredClauses ==
    (IF Req.rotation > 0
     THEN <<Format(Templates.rotate_right, Abs(IntOfFloat(Req.rotation)))>>
     ELSE IF Req.rotation < 0
     THEN <<Format(Templates.rotate_left, Abs(IntOfFloat(Req.rotation)))>>
     ELSE <<>>)
    \o (IF Req.tilt > 5 * Scale THEN <<Templates.birds_eye>>
        ELSE IF Req.tilt < -5 * Scale THEN <<Templates.worms_eye>>
        ELSE <<>>)
    \o (IF Req.zoom > 5 * Scale THEN <<Templates.close_up>> ELSE <<>>)
    \o (IF WideAngleRead THEN <<Templates.wide_angle>> ELSE <<>>)

RECURSIVE SingleSpaced(_)
SingleSpaced(clauses) ==
    IF Len(clauses) = 1 THEN clauses[1]
    ELSE clauses[1] \o <<" ">> \o SingleSpaced(Tail(clauses))

\* C2: the prompt is the triggered clauses in the order rotation, tilt, zoom,
\* wide-angle, one blank between consecutive clauses, no leading or trailing
\* blank, each clause at most once; (90, 20, 0, false) gives the rotate-right
\* (90) phrase, one blank, the bird's-eye phrase.
C2_ClauseOrderAndSpacing ==
    Built =>
        /\ TriggeredClauses # <<>> => Prompt = SingleSpaced(TriggeredClauses)
        /\ Prompt[1] # " "
        /\ Prompt[Len(Prompt)] # " "
        /\ ~Contains(<<" ", " ">>, Prompt)
        /\ \A c \in {Templates.birds_eye, Templates.worms_eye, Templates.close_up,
                     Templates.wide_angle, <<"Rotate">>} : Occurrences(c, Prompt) <= 1
        /\ RequestIs(90 * Scale, 20 * Scale, 0, FALSE)
               => Prompt = RotateRight90ThenBirdsEye

C2_Witness ==
    /\ Built
    /\ deployment = "local"
    /\ RequestIs(90 * Scale, 20 * Scale, 8 * Scale, TRUE)
    /\ Len(TriggeredClauses) = 4
    /\ Prompt = SingleSpaced(TriggeredClauses)

\* ------------------------------------------------------------------- C3
\* The whole degrees of a rotation: the natural d with d <= |rotation| < d + 1.
WholeDegrees(rotation) ==
    CHOOSE d \in 0..Abs(rotation) :
        d * Scale <= Abs(rotation) /\ Abs(rotation) < (d + 1) * Scale

\* The value a string of decimal digits denotes.
DigitValue(t) ==
    CASE t = "0" -> 0 [] t = "1" -> 1 [] t = "2" -> 2 [] t = "3" -> 3
      [] t = "4" -> 4 [] t = "5" -> 5 [] t = "6" -> 6 [] t = "7" -> 7
      [] t = "8" -> 8 [] t = "9" -> 9 [] OTHER -> -1

Digits == {"0", "1", "2", "3", "4", "5", "6", "7", "8", "9"}

RECURSIVE DecimalValue(_)
DecimalValue(ds) ==
    IF ds = <<>> THEN 0
    ELSE 10 * DecimalValue(SubSeq(ds, 1, Len(ds) - 1)) + DigitValue(ds[Len(ds)])

\* The digits that follow the first token of the prompt.
RECURSIVE LeadingDigits(_)
LeadingDigits(s) ==
    IF s # <<>> /\ Head(s) \in Digits THEN <<Head(s)>> \o LeadingDigits(Tail(s))
    ELSE <<>>

\* The rotation clause with the degrees written ds, for the direction of
\* the request.
RotationPhrase(ds) ==
    IF Req.rotation > 0
    THEN <<"U5C06955C5934541153F365CB8F6C">> \o ds \o <<"U5EA6", " ",
           "Rotate", " ", "the", " ", "camera", " ">> \o ds \o <<" ",
           "degrees", " ", "to", " ", "the", " ", "right.">>
    ELSE <<"U5C06955C593454115DE665CB8F6C">> \o ds \o <<"U5EA6", " ",
           "Rotate", " ", "the", " ", "camera", " ">> \o ds \o <<" ",
           "degrees", " ", "to", " ", "the", " ", "left.">>

\* C3: the rotation clause is emitted exactly when rotation # 0, rotate-right
\* for rotation > 0 and rotate-left for rotation < 0, with degrees
\* abs(truncate(rotation)) and no clamping: a non-zero rotation in (-1, 1)
\* gives the clause with 0 degrees, rotation 400 gives 400 degrees.
C3_RotationClause ==
    Built =>
        LET ds == LeadingDigits(Tail(Prompt))
        IN  /\ Req.rotation = 0 => ~Contains(<<"Rotate">>, Prompt)
            /\ Req.rotation # 0 =>
                  /\ IsPrefix(RotationPhrase(ds), Prompt)
                  /\ ds # <<>>
                  /\ Len(ds) > 1 => ds[1] # "0"
                  /\ DecimalValue(ds) = WholeDegrees(Req.rotation)
            /\ (Req.rotation # 0 /\ Abs(Req.rotation) < Scale) => ds = <<"0">>
            /\ Req.rotation = 400 * Scale => ds = <<"4", "0", "0">>

C3_Witness ==
    /\ Built
    /\ Req.rotation = -1
    /\ IsPrefix(<<"U5C06955C593454115DE665CB8F6C", "0", "U5EA6">>, Prompt)

\* ------------------------------------------------------------------- C4
BirdsEyeText ==
    <<"U5C0676F8673A8F6C54119E1F77B089C689D2", " ",
      "Turn", " ", "the", " ", "camera", " ", "to", " ", "a", " ",
      "bird's-eye", " ", "view.">>
WormsEyeText ==
    <<"U5C0676F8673A5207636252304EF089C689C689D2", " ",
      "Turn", " ", "the", " ", "camera", " ", "to", " ", "a", " ",
      "worm's-eye", " ", "view.">>

\* C4: the tilt clause is the bird's-eye phrase when tilt > 5, the worm's-eye
\* phrase when tilt < -5 and absent for tilt in [-5, 5]; the two phrases never
\* appear together; the choice does not depend on rotation or zoom;
\* (0, -15, 0, false) gives exactly the worm's-eye phrase.
C4_TiltClause ==
    Built =>
        /\ Contains(BirdsEyeText, Prompt) <=> Req.tilt > 5 * Scale
        /\ Contains(WormsEyeText, Prompt) <=> Req.tilt < -5 * Scale
        /\ ~(Contains(BirdsEyeText, Prompt) /\ Contains(WormsEyeText, Prompt))
        /\ RequestIs(0, -15 * Scale, 0, FALSE) => Prompt = WormsEyeText

C4_Witness ==
    /\ Built
    /\ Req.tilt = 5 * Scale
    /\ Req.rotation # 0
    /\ Req.zoom > 5 * Scale
    /\ ~Contains(BirdsEyeText, Prompt)
    /\ ~Contains(WormsEyeText, Prompt)

\* ------------------------------------------------------------------- C5
CloseUpText ==
    <<"U5C06955C59348F6C4E3A72795199955C5934", " ",
      "Turn", " ", "the", " ", "camera", " ", "to", " ", "a", " ",
      "close-up.">>
WideAngleText ==
    <<"U5C06955C59348F6C4E3A5E7F89D2955C5934", " ",
      "Turn", " ", "the", " ", "camera", " ", "to", " ", "a", " ",
      "wide-angle", " ", "lens.">>

\* The prompt the deployment builds for the request with its zoom set to 0.
PromptAtZoomZero ==
    IF deployment = "local"
    THEN build_camera_prompt(Req.rotation, Req.tilt, 0, Req.wide_angle)
    ELSE modal_build_camera_prompt(Req.rotation, Req.tilt, 0)

\* C5: the zoom clause is the close-up phrase exactly when zoom > 5; zoom = 5
\* and every smaller or negative zoom contribute nothing; no zoom value
\* produces the wide-angle phrase; (0, 0, 8, false) gives exactly the
\* close-up phrase.
C5_ZoomClause ==
    Built =>
        /\ Contains(CloseUpText, Prompt) <=> Req.zoom > 5 * Scale
        /\ Req.zoom <= 5 * Scale => Prompt = PromptAtZoomZero
        /\ Contains(WideAngleText, Prompt) => WideAngleRead
        /\ RequestIs(0, 0, 8 * Scale, FALSE) => Prompt = CloseUpText

C5_Witness ==
    /\ Built
    /\ Req.zoom = 5 * Scale
    /\ Req.tilt > 5 * Scale
    /\ ~Contains(CloseUpText, Prompt)

\* ------------------------------------------------------------------- C6
\* C6: on the local server the wide-angle phrase is in the prompt exactly when
\* wide_angle is true, and is then the last clause; the serverless prompt never
\* holds it, and a serverless request with only the flag set gets the sentinel.
C6_WideAngleClause ==
    Built =>
        /\ deployment = "local" =>
              /\ Contains(WideAngleText, Prompt) <=> Req.wide_angle
              /\ Req.wide_angle => IsSuffix(WideAngleText, Prompt)
              /\ RequestIs(0, 0, 0, TRUE) => Prompt = WideAngleText
        /\ deployment = "modal" =>
              /\ ~Contains(WideAngleText, Prompt)
              /\ RequestIs(0, 0, 0, TRUE) => Prompt = SentinelText

C6_Witness ==
    /\ Built
    /\ deployment = "local"
    /\ Req.wide_angle
    /\ Req.zoom > 5 * Scale
    /\ Req.rotation > 0
    /\ IsSuffix(WideAngleText, Prompt)

\* ------------------------------------------------------------------- C7
\* C7: apart from the wide-angle flag the two builders agree: the serverless
\* builder returns for (rotation, tilt, zoom) what the local one returns for
\* (rotation, tilt, zoom, wide_angle = False), and the template tables are
\* the same.
C7_BuildersEquivalent ==
    /\ PROMPT_TEMPLATES = MODAL_PROMPT_TEMPLATES
    /\ Built =>
          /\ deployment = "modal" =>
                Prompt = build_camera_prompt(Req.rotation, Req.tilt, Req.zoom, FALSE)
          /\ (deployment = "local" /\ ~Req.wide_angle) =>
                Prompt = modal_build_camera_prompt(Req.rotation, Req.tilt, Req.zoom)

C7_Witness ==
    /\ Built
    /\ deployment = "modal"
    /\ Req.rotation < 0
    /\ Req.tilt < -5 * Scale
    /\ Req.zoom > 5 * Scale
    /\ Prompt = build_camera_prompt(Req.rotation, Req.tilt, Req.zoom, FALSE)
    /\ Prompt # SentinelText

\* ------------------------------------------------------------------- C8
\* The seed a request supplies, or 0 when it supplies none.
SuppliedSeedOrZero == IF Req.seed = None THEN <<0, 0>> ELSE Req.seed[1]

\* The request was answered with a result (HTTP 200).
Succeeded == Responded /\ response.status = 200

\* C8 (pipeline part): no handler of either deployment calls the pipeline with
\* the sentinel prompt, and a handler whose prompt is the sentinel calls it
\* not at all.
C8_PipelineNeverGetsSentinel ==
    /\ \A i \in 1..Len(pipe_calls) : pipe_calls[i].prompt # SentinelText
    /\ (Built /\ Prompt = SentinelText) => pipe_calls = <<>>

\* C8: whenever the prompt is "no camera movement" the generation
\* short-circuits: the input image comes back unchanged with elapsedMs = 0 and
\* the pipeline is not invoked, in either deployment.
C8_ShortCircuit ==
    /\ C8_PipelineNeverGetsSentinel
    /\ (Built /\ Prompt = SentinelText /\ Succeeded) =>
          /\ deployment = "local" =>
                /\ service # None
                /\ Some(service[1].image) = base64_to_image(Req.image)
                /\ service[1].time_ms = 0
          /\ deployment = "modal" => response.image = Req.image
          /\ "inference_time_ms" \in DOMAIN response
          /\ response.inference_time_ms = 0

\* ------------------------------------------------------------------- C9
\* C9: in the short-circuit case the reported seed is the seed the request
\* supplied, or 0 if it supplied none, on the local server and on the
\* serverless endpoint.
C9_ShortCircuitSeed ==
    (Built /\ Prompt = SentinelText /\ Succeeded) =>
        response.seed = SuppliedSeedOrZero

\* ------------------------------------------------------------------ C10
\* C10: for a generation with a non-sentinel prompt the reported seed is the
\* seed the generator was seeded with; it is the request's seed when one was
\* supplied (0 included) and otherwise a drawn integer in [0, 2^32 - 1].
C10_ReportedSeedIsGeneratorSeed ==
    (Built /\ Prompt # SentinelText /\ Succeeded) =>
        /\ Len(pipe_calls) = 1
        /\ response.seed = pipe_calls[1].generator_seed
        /\ Req.seed # None => response.seed = Req.seed[1]
        /\ Req.seed = None =>
              /\ response.seed[1] \in 0..65535
              /\ response.seed[2] \in 0..65535

C10_Witness ==
    /\ Built
    /\ Succeeded
    /\ deployment = "local"
    /\ Prompt # SentinelText
    /\ Req.seed = Some(<<0, 0>>)
    /\ response.seed = <<0, 0>>
    /\ pipe_calls[1].generator_seed = <<0, 0>>

\* ------------------------------------------------------------------ C11
\* C11: whenever the model is not loaded (_pipe is None) while POST /generate
\* is handled on the local server, the response is HTTP 503 and not 500, and
\* the handler built no prompt, decoded no image, called the pipeline not
\* once and met no generation failure.
C11_NotLoadedIs503 ==
    (deployment = "local" /\ Responded /\ endpoint = "/generate" /\ pipe = "None") =>
        /\ response.status = 503
        /\ response.status # 500
        /\ prompt = None
        /\ trace = <<>>
        /\ decoded = None
        /\ pipe_calls = <<>>
        /\ error = None

C11_Witness ==
    /\ deployment = "local"
    /\ Responded
    /\ endpoint = "/generate"
    /\ pipe = "None"
    /\ load_result = "False"
    /\ response.status = 503
    /\ Req.image = <<NOT_AN_IMAGE>>

\* ------------------------------------------------------------------ C12
\* C12: with the model loaded, a failure met while the local server handles
\* POST /generate (decoding the image, the pipeline call, encoding the result)
\* gives HTTP 500 whose detail is the message of that failure; a response
\* with status 200 met no failure and went through every step; the pipeline
\* is called at most once for the request.
LoadedGenerate ==
    deployment = "local" /\ Responded /\ endpoint = "/generate" /\ pipe # "None"

AllSteps == <<"build_prompt", "decode_image", "generate", "encode_image">>

C12_FailureIs500WithMessage ==
    LoadedGenerate =>
        /\ response.status \in {200, 500}
        /\ error # None => (response.status = 500 /\ response.detail = error[1])
        /\ response.status = 200 => (error = None /\ trace = AllSteps)
        /\ base64_to_image(Req.image) = None =>
              (response.status = 500 /\ response.detail = DECODE_ERROR)
        /\ (Len(pipe_calls) = 1 /\ service = None) =>
              (response.status = 500 /\ response.detail = PIPELINE_ERROR)
        /\ Len(pipe_calls) <= 1

C12_Witness ==
    /\ LoadedGenerate
    /\ Len(pipe_calls) = 1
    /\ error = Some(PIPELINE_ERROR)
    /\ response.status = 500
    /\ response.detail = PIPELINE_ERROR

\* ------------------------------------------------------------------ C13
\* C13: a POST /generate whose image field is malformed base64 or does not
\* decode to an image is answered, in either deployment, with a 4xx status
\* and a descriptive message, not with the 5xx of an inference failure.
DecodeFailed ==
    /\ Responded
    /\ endpoint = "/generate"
    /\ decoded # None
    /\ OpenImage(decoded[1]) = None

C13_MalformedImageIs4xx ==
    DecodeFailed =>
        /\ response.status \in 400..499
        /\ response.detail = DECODE_ERROR

\* ------------------------------------------------------------------ C14
\* C14: every successful /generate response, the no-camera-movement
\* short-circuit included, in both deployments carries the four result
\* fields image, prompt, seed and inference_time_ms.
ResultFields == {"image", "prompt", "seed", "inference_time_ms"}

C14_SuccessCarriesFourFields ==
    (Responded /\ endpoint = "/generate" /\ response.status = 200) =>
        ResultFields \subseteq DOMAIN response

\* ------------------------------------------------------------------ C15
\* C15: the text handed to the base64 decoder is the whole request string
\* when it holds no comma, and otherwise everything after its first comma,
\* however many commas follow; so a data URI decodes as its bare payload.
AfterFirstComma(s) ==
    IF \A i \in 1..Len(s) : s[i] # "," THEN s
    ELSE LET k == CHOOSE i \in 1..Len(s) :
                      s[i] = "," /\ \A j \in 1..(i - 1) : s[j] # ","
         IN  SubSeq(s, k + 1, Len(s))

C15_PayloadIsAllAfterFirstComma ==
    (Responded /\ endpoint = "/generate" /\ decoded # None) =>
        /\ decoded[1] = AfterFirstComma(Req.image)
        /\ OpenImage(decoded[1]) = OpenImage(AfterFirstComma(Req.image))

\* ------------------------------------------------------------------ C16
\* The images the codec is asked to encode, and the modes a PNG can store.
CodecImages == {ImageA("RGB"), ImageA("RGBA"), ImageA("CMYK"), PipelineImage}
PNG_WRITABLE_MODES == {"RGB", "RGBA"}

HasComma(s) == \E i \in 1..Len(s) : s[i] = ","

RoundTrips(img) ==
    /\ image_to_base64(img) # None
    /\ base64_to_image(image_to_base64(img)[1]) = Some(img)
    /\ ~HasComma(image_to_base64(img)[1])
    /\ Base64Payload(image_to_base64(img)[1]) = image_to_base64(img)[1]

\* The image handed to image_to_base64 by the local handler.
Encoding ==
    /\ deployment = "local"
    /\ Responded
    /\ endpoint = "/generate"
    /\ trace = AllSteps

C17_LoadsAtMostOnce ==
    deployment = "local" => load_runs <= 1

\* ------------------------------------------------------------------ C18
\* C18: after a load_model() that returned False at startup, whatever step
\* failed, is_model_loaded() is False, /health reports model_loaded false and
\* every POST /generate is answered 503 without reaching the pipeline.
FailedStartup ==
    deployment = "local" /\ server = "up" /\ load_runs = 1 /\ load_result = "False"

C18_FailedLoadLeavesUnavailable ==
    FailedStartup =>
        /\ ~is_model_loaded
        /\ (Responded /\ endpoint = "/health") => ~response.model_loaded
        /\ (Responded /\ endpoint = "/generate") =>
              (response.status = 503 /\ pipe_calls = <<>>)

\* ------------------------------------------------------------------ C19
\* C19: in both handlers the image is decoded only after the prompt is built
\* and only when the prompt is not "no camera movement": a request with the
\* sentinel prompt has nothing decoded and succeeds whatever its image field.
C19_SentinelSkipsDecoding ==
    (Built /\ endpoint = "/generate") =>
        /\ decoded # None => (trace[1] = "build_prompt" /\ trace[2] = "decode_image")
        /\ Prompt = SentinelText =>
              /\ decoded = None
              /\ "decode_image" \notin {trace[i] : i \in 1..Len(trace)}
              /\ response.status = 200

\* ------------------------------------------------------------------ C20
\* C20: on the local server the loaded state is monotone: no step (a further
\* load_model, failing or not, a generation, failing or not, /health,
\* /status) takes is_model_loaded() from True back to False.
C20_LoadedIsMonotone ==
    [][(deployment = "local" /\ is_model_loaded) => is_model_loaded']_vars

C20_Witness ==
    /\ deployment = "local"
    /\ load_runs = 2
    /\ load_result = "False"
    /\ is_model_loaded
    /\ Responded
    /\ endpoint = "/health"
    /\ response.model_loaded

\* ------------------------------------------------------------------ C21
\* The architecture main selected: the explicit --architecture if given,
\* otherwise detect_model_type(model_path, file_size).
Selected ==
    IF args[1].architecture # "" THEN args[1].architecture
    ELSE detect_model_type(args[1].model_path, cli_file_size[1])

\* The part of C21 about the defaults and the pipeline function: main's
\* model_type is the selected architecture, the settings are the command
\* line completed by the defaults of that architecture, and the function
\* called is generate_with_sdxl exactly for "sdxl".
C21_DefaultsAndFunctionFollowSelection ==
    model_type # None =>
        /\ model_type[1] = Selected
        /\ settings[1] = ApplyDefaults(args[1], get_architecture_defaults(Selected))
        /\ cli_call # None =>
              (cli_call[1].function = "generate_with_sdxl" <=> Selected = "sdxl")

\* C21: the architecture main selected is the one used for the whole run: the
\* generation function works with it, and the model_type of the success JSON
\* equals it.
C21_ReportedTypeIsSelected ==
    (cli_pc = "exited" /\ cli_call # None /\ stdout[1].success) =>
        /\ cli_call[1].model_type = model_type[1]
        /\ stdout[1].model_type = model_type[1]

====
